---- MODULE Spec2Model ----
(***************************************************************************)
(* State-machine model of seshet/bot.py: the roster kept by SeshetBot      *)
(* (self.users, self.channels and the SeshetUser / SeshetChannel objects   *)
(* they hold), the per-channel message cache and the module dispatch of    *)
(* run_modules.  One action per event handler; an action is the whole      *)
(* handler, and a Python exception is recorded in err together with the    *)
(* state the handler had reached when it was raised.                       *)
(*                                                                         *)
(* Raw strings (event fields, nick names, messages) are tuples of          *)
(* one-character strings.  An IRCstr is represented by its case-folded     *)
(* tuple, so that equality of representations is IRCstr equality.          *)
(***************************************************************************)
EXTENDS Integers, Sequences, FiniteSets, TLC

(***************************************************************************)
(* Bounds of the model.                                                    *)
(***************************************************************************)
\* events handled in one behaviour of Spec
MaxEvents == 4
\* calls of datetime.utcnow() by log_message in one behaviour of Spec
MaxClock == 2
\* events handled in one behaviour of SpecDispatch
MaxDispatchEvents == 2
\* number of events handled in a behaviour of SpecFile
MaxFileEvents == 3
\* largest log_size of the channel of SpecCache
MaxCap == 3
\* calls of log_message in one behaviour of SpecCache
MaxInserts == 5

(***************************************************************************)
(* Strings.                                                                *)
(***************************************************************************)
\* str.lower() on one character (the capitals the inputs use)
LowerChar(c) ==
    CASE c = "A" -> "a" [] c = "B" -> "b" [] c = "C" -> "c" [] c = "D" -> "d"
      [] c = "I" -> "i" [] c = "N" -> "n" [] c = "O" -> "o" [] c = "P" -> "p"
      [] c = "R" -> "r" [] c = "T" -> "t"
      [] OTHER -> c

\* str.lower()
StrLower(s) == [i \in 1..Len(s) |-> LowerChar(s[i])]

\* the IRC case mapping on one character: ASCII lower case extended with
\* []\~ -> {}|^
IRCLowerChar(c) ==
    CASE c = "[" -> "{"
      [] c = "]" -> "}"
      [] c = "\\" -> "|"
      [] c = "~" -> "^"
      [] OTHER -> LowerChar(c)

\* utils.IRCstr: the case-normalised identity of a raw string
IRCstr(s) == [i \in 1..Len(s) |-> IRCLowerChar(s[i])]

(***************************************************************************)
(* The inputs events are drawn from.                                       *)
(***************************************************************************)
\* SeshetBot.nickname (SeshetBot.__init__, nick=...)
Nickname == <<"B", "o", "t">>

\* SeshetBot.user and SeshetBot.real_name (set by the IRC client)
BotUser == <<"b", "t">>
BotRealName == <<"R", "b">>

NickA == <<"A">>
NickB == <<"B">>
ChanC == <<"#", "C">>
ChanD == <<"#", "d">>

\* sources of events: the bot's nick as the bot writes it and in another
\* case, and two other nicks
RawNicks == {Nickname, <<"b", "o", "t">>, NickA, NickB}
\* new nicks of NICK events
NewNicks == {<<"a">>, NickB, Nickname}
RawChans == {ChanC, ChanD}
\* name lists of RPL_NAMES events
NameLists == {{}, {NickA}, {NickA, NickB, Nickname}}

Nicks == {IRCstr(n) : n \in RawNicks \cup NewNicks}
Chans == {IRCstr(c) : c \in RawChans}

\* at most one SeshetChannel object is made per event
ObjIds == 1..(MaxEvents + 1)

VARIABLES
    users,      \* self.users: insertion-ordered dict, a sequence of
                \* [key, nick, channels]; channels is the SeshetUser's list
                \* of channel objects (object ids)
    channels,   \* self.channels: function from IRCstr keys to object ids
    heap,       \* the SeshetChannel objects: id -> [name, users, message_log,
                \* log_size]
    clock,      \* number of utcnow() calls made by log_message
    last,       \* the kind of the event handled last
    err,        \* how the last handler ended: "ok" or the exception raised
    disp,       \* what run_modules did for the last event
    steps,      \* number of events handled
    modules,    \* the rows of db.modules, each with the commands of the
                \* Python module it names
    inserted,   \* every entry log_message appended to the channel of
                \* SpecCache, oldest first
    returned,   \* what the last call of get_unique_users returned
    trace,      \* the calls of self.log, log_message and run_modules the
                \* last handler made, in order
    db,         \* TRUE when the bot was built with a database
    log_formats,\* self.log_formats: the event types that have a template
    locale,     \* self.locale: the keys it has
    log_file,   \* self.log_file
    written     \* the lines _log_to_file wrote, oldest first

vars == <<users, channels, heap, clock, last, err, disp, steps, modules, inserted,
          returned, trace, db, log_formats, locale, log_file, written>>

(***************************************************************************)
(* The insertion-ordered dict self.users.                                  *)
(***************************************************************************)
Keys(us) == {us[i].key : i \in 1..Len(us)}

\* position of key k
Idx(us, k) == CHOOSE i \in 1..Len(us) : us[i].key = k

\* self.users[k]
Get(us, k) == us[Idx(us, k)]

\* self.users[k] = u: an existing key keeps its position, a new key is
\* appended
Put(us, k, u) ==
    IF k \in Keys(us)
    THEN [us EXCEPT ![Idx(us, k)] = [u EXCEPT !.key = k]]
    ELSE Append(us, [u EXCEPT !.key = k])

\* del self.users[k]
Del(us, k) ==
    LET i == Idx(us, k)
    IN  SubSeq(us, 1, i - 1) \o SubSeq(us, i + 1, Len(us))

\* list.remove(x): removes the first occurrence
ListRemove(l, x) ==
    LET i == CHOOSE j \in 1..Len(l) : l[j] = x /\ \A k \in 1..(j - 1) : l[k] # x
    IN  SubSeq(l, 1, i - 1) \o SubSeq(l, i + 1, Len(l))

InList(l, x) == \E i \in 1..Len(l) : l[i] = x

(***************************************************************************)
(* SeshetUser and SeshetChannel.                                           *)
(***************************************************************************)
\* SeshetUser.__init__
NewUser(nick) == [key |-> nick, nick |-> nick, channels |-> <<>>]

\* SeshetChannel.__init__ (log_size defaults to 100)
DefaultLogSize == 100
NewChannel(name, names, logSize) ==
    [name |-> name, users |-> names, message_log |-> <<>>, log_size |-> logSize]

\* A roster under construction by a handler: r.users, r.channels, r.heap
\* and r.err ("ok" while no exception was raised).
Raise(r, e) == [r EXCEPT !.err = e]

\* join without the test for the channel being in the list already
UserJoinAgain(r, k, c) ==
    LET u == Get(r.users, k)
    IN  [r EXCEPT !.heap[c].users = @ \cup {u.nick},
                  !.users = Put(r.users, k, [u EXCEPT !.channels = Append(@, c)])]

\* SeshetUser.join(channel) for the user under key k and the object c
UserJoin(r, k, c) ==
    LET u == Get(r.users, k)
    IN  IF ~InList(u.channels, c)
        THEN [r EXCEPT !.heap[c].users = @ \cup {u.nick},
                       !.users = Put(r.users, k,
                                     [u EXCEPT !.channels = Append(@, c)])]
        ELSE r

\* SeshetUser.part(channel); set.remove raises KeyError on a missing element
UserPart(r, k, c) ==
    LET u == Get(r.users, k)
    IN  IF InList(u.channels, c)
        THEN IF u.nick \notin r.heap[c].users
             THEN Raise(r, "KeyError")
             ELSE [r EXCEPT !.heap[c].users = @ \ {u.nick},
                            !.users = Put(r.users, k,
                                  [u EXCEPT !.channels = ListRemove(@, c)])]
        ELSE r

\* SeshetUser.quit(): the loop over self.channels from position i on, then
\* self.channels = []
RECURSIVE QuitLoop(_, _, _)
QuitLoop(r, k, i) ==
    LET u == Get(r.users, k)
    IN  IF i > Len(u.channels)
        THEN [r EXCEPT !.users = Put(r.users, k, [u EXCEPT !.channels = <<>>])]
        ELSE LET c == u.channels[i]
             IN  IF u.nick \notin r.heap[c].users
                 THEN Raise(r, "KeyError")
                 ELSE QuitLoop([r EXCEPT !.heap[c].users = @ \ {u.nick}],
                               k, i + 1)

UserQuit(r, k) == QuitLoop(r, k, 1)

\* SeshetUser.change_nick(nick): self.nick is set first, then the loop over
\* self.channels from position i on
RECURSIVE ChangeNickLoop(_, _, _, _, _)
ChangeNickLoop(r, k, oldNick, newNick, i) ==
    LET u == Get(r.users, k)
    IN  IF i > Len(u.channels)
        THEN r
        ELSE LET c == u.channels[i]
             IN  IF oldNick \notin r.heap[c].users
                 THEN Raise(r, "KeyError")
                 ELSE ChangeNickLoop(
                          [r EXCEPT !.heap[c].users = (@ \ {oldNick}) \cup {newNick}],
                          k, oldNick, newNick, i + 1)

UserChangeNick(r, k, newNick) ==
    LET u == Get(r.users, k)
        r1 == [r EXCEPT !.users = Put(r.users, k, [u EXCEPT !.nick = newNick])]
    IN  ChangeNickLoop(r1, k, u.nick, newNick, 1)

(***************************************************************************)
(* The roster handlers of SeshetBot.  A handler takes the roster r and the *)
(* event e = [kind, source, target, victim, names, message, logOk] and     *)
(* returns the roster it leaves behind.  e.logOk says whether a call of    *)
(* self.log made for this event returns; when it does not, the exception   *)
(* of the storage layer leaves the handler at that call.                   *)
(***************************************************************************)
\* self.log(...) as the first statement of a handler
\* the keys of self.locale that _log_to_file reads, lines 466-469
LocaleKeys == {"date_fmt", "time_fmt", "short_datetime_fmt", "long_datetime_fmt"}

\* the values of self.log_file: the constructor's, and one with a directory
\* and the target in the file name
DefaultLogFile == "seshet.log"
TargetLogFile == "logs/{target}.log"

\* os.path.dirname(file_path) is not the empty string
HasDir(file) == file = TargetLogFile

\* self.log_file.format(**locals())
FilePath(file, target) ==
    IF file = TargetLogFile THEN <<"logs/", target, ".log">> ELSE <<file>>

\* the etype each handler passes to self.log
EType(kind) ==
    CASE kind = "PRIVMSG" -> "privmsg"
      [] kind = "CTCP_ACTION" -> "action"
      [] kind = "JOIN" -> "join"
      [] kind = "PART" -> "part"
      [] kind = "KICK" -> "kick"
      [] kind = "QUIT" -> "quit"
      [] kind = "NICK" -> "nick"
      [] kind = "MODE" -> "mode"

\* _log_to_file without the assignment of line 472
LogToFileKeepsTarget(r, etype, source, msg, target) ==
    IF ~(LocaleKeys \subseteq r.locale)
    THEN Raise(r, "KeyError")
    ELSE IF etype \in r.log_formats
         THEN IF ~HasDir(r.log_file)
              THEN Raise(r, "FileNotFoundError")
              ELSE [r EXCEPT !.written =
                      Append(@, [path |-> FilePath(r.log_file, target),
                                 etype |-> etype, source |-> source,
                                 target |-> target, msg |-> msg])]
         ELSE r

\* _log_to_file(etype, source, msg, target), lines 460-483: a line is kept
\* as the file it went to and the values its template can name;
\* os.makedirs('') raises FileNotFoundError for a path with no directory
LogToFile(r, etype, source, msg, target) ==
    IF ~(LocaleKeys \subseteq r.locale)
    THEN Raise(r, "KeyError")
    ELSE LET tgt == IF target = Nickname /\ etype \in {"privmsg", "action"}
                    THEN source
                    ELSE target
         IN  IF etype \in r.log_formats
             THEN IF ~HasDir(r.log_file)
                  THEN Raise(r, "FileNotFoundError")
                  ELSE [r EXCEPT !.written =
                          Append(@, [path |-> FilePath(r.log_file, tgt),
                                     etype |-> etype, source |-> source,
                                     target |-> tgt, msg |-> msg])]
             ELSE r

\* self.log(...): SeshetBot.log with a database, _log_to_file without
\* (line 147)
LogCall(r, e) ==
    LET r1 == [r EXCEPT !.trace = Append(@, "log")]
    IN  IF r.db
        THEN IF e.logOk THEN r1 ELSE Raise(r1, "PersistenceError")
        ELSE LogToFile(r1, EType(e.kind), e.source, e.message, e.target)

\* _add_channel_names: a new SeshetChannel object (here under the temporary
\* id 0) replaces whatever self.channels held under the name
TmpId == 0
AddChannelNames(r, e) ==
    LET chan == IRCstr(e.target)
        names == {IRCstr(n) : n \in e.names}
    IN  [r EXCEPT !.heap = (TmpId :> NewChannel(chan, names, DefaultLogSize)) @@ @,
                  !.channels = (chan :> TmpId) @@ @]

\* on_join, lines 312-317
JoinRoster(r, e) ==
    LET chan == IRCstr(e.target)
        nick == IRCstr(e.source)
    IN  IF e.source # Nickname
        THEN LET r1 == IF nick \notin Keys(r.users)
                       THEN [r EXCEPT !.users = Put(@, nick, NewUser(nick))]
                       ELSE r
             IN  IF chan \notin DOMAIN r1.channels
                 THEN Raise(r1, "KeyError")
                 ELSE UserJoin(r1, nick, r1.channels[chan])
        ELSE r

\* the loop of on_part / on_kick over self.users.values(), from position i
\* on: a del during the iteration makes the next step of the iterator raise
\* RuntimeError (dictionary changed size during iteration)
RECURSIVE PruneLoop(_, _, _)
PruneLoop(r, c, i) ==
    IF i > Len(r.users)
    THEN r
    ELSE LET u  == r.users[i]
             u1 == IF InList(u.channels, c)
                   THEN [u EXCEPT !.channels = ListRemove(@, c)]
                   ELSE u
             r1 == [r EXCEPT !.users[i] = u1]
         IN  IF Len(u1.channels) = 0
             THEN IF u1.nick \notin Keys(r1.users)
                  THEN Raise(r1, "KeyError")
                  ELSE Raise([r1 EXCEPT !.users = Del(@, u1.nick)], "RuntimeError")
             ELSE PruneLoop(r1, c, i + 1)

\* on_part forgetting the channel the bot left
PartRosterDropsChannel(r, e) ==
    LET chan == IRCstr(e.target)
        nick == IRCstr(e.source)
    IN  IF chan \notin DOMAIN r.channels THEN Raise(r, "KeyError")
        ELSE IF nick \notin Keys(r.users) THEN Raise(r, "KeyError")
        ELSE LET channel == r.channels[chan]
                 r1 == UserPart(r, nick, channel)
             IN  IF r1.err # "ok" THEN r1
                 ELSE IF nick = IRCstr(Nickname)
                      THEN PruneLoop([r1 EXCEPT !.channels =
                                         [c \in DOMAIN @ \ {chan} |-> @[c]]],
                                     channel, 1)
                      ELSE r1

\* on_part lines 329-342 and on_kick lines 371-384: the departing nick is
\* e.source in both
PartRoster(r, e) ==
    LET chan == IRCstr(e.target)
        nick == IRCstr(e.source)
    IN  IF chan \notin DOMAIN r.channels THEN Raise(r, "KeyError")
        ELSE IF nick \notin Keys(r.users) THEN Raise(r, "KeyError")
        ELSE LET channel == r.channels[chan]
                 r1 == UserPart(r, nick, channel)
             IN  IF r1.err # "ok" THEN r1
                 ELSE IF nick = IRCstr(Nickname)
                      THEN PruneLoop(r1, channel, 1)
                      ELSE r1

OnPart(r, e) ==
    LET r1 == LogCall(r, e)
    IN  IF r1.err # "ok" THEN r1 ELSE PartRoster(r1, e)

OnKick(r, e) ==
    LET r1 == LogCall(r, e)
    IN  IF r1.err # "ok" THEN r1 ELSE PartRoster(r1, e)

\* k calls of self.log in a row
RECURSIVE LogCalls(_, _, _)
LogCalls(r, e, k) ==
    IF k = 0 \/ r.err # "ok" THEN r ELSE LogCalls(LogCall(r, e), e, k - 1)

\* on_quit: self.log is called once for every channel that holds the nick
OnQuit(r, e) ==
    LET nick == IRCstr(e.source)
        seen == {c \in DOMAIN r.channels : nick \in r.heap[r.channels[c]].users}
        r1 == LogCalls(r, e, Cardinality(seen))
    IN  IF r1.err # "ok" THEN r1
        ELSE IF nick \notin Keys(r1.users) THEN Raise(r1, "KeyError")
        ELSE LET r2 == UserQuit(r1, nick)
             IN  IF r2.err # "ok" THEN r2
                 ELSE [r2 EXCEPT !.users = Del(@, nick)]

\* on_nick_change: the logging loop reads chan.user_list, an attribute no
\* SeshetChannel has, for the first channel of self.channels
OnNickChange(r, e) ==
    LET new_nick == IRCstr(e.target)
        old_nick == IRCstr(e.source)
    IN  IF DOMAIN r.channels # {} THEN Raise(r, "AttributeError")
        ELSE IF old_nick \notin Keys(r.users) THEN Raise(r, "KeyError")
        ELSE LET r1 == UserChangeNick(r, old_nick, new_nick)
             IN  IF r1.err # "ok" THEN r1
                 ELSE LET r2 == [r1 EXCEPT !.users =
                                     Put(@, new_nick, Get(r1.users, old_nick))]
                      IN  [r2 EXCEPT !.users = Del(@, old_nick)]

\* get_unique_users with the test c.name != chan left out
GetUniqueUsersOfAll(r, c) ==
    LET chan == IRCstr(c)
    IN  IF chan \notin DOMAIN r.channels THEN Raise(r, "KeyError")
        ELSE LET these_users == r.heap[r.channels[chan]].users
                 other_users == UNION {r.heap[r.channels[d]].users : d \in DOMAIN r.channels}
             IN  [r EXCEPT !.ret = these_users \ other_users]

\* get_unique_users(chan), lines 284-292: r.ret is the set returned
GetUniqueUsers(r, c) ==
    LET chan == IRCstr(c)
    IN  IF chan \notin DOMAIN r.channels THEN Raise(r, "KeyError")
        ELSE LET these_users == r.heap[r.channels[chan]].users
                 other_users == UNION {r.heap[r.channels[d]].users :
                                         d \in {x \in DOMAIN r.channels :
                                                  r.heap[r.channels[x]].name # chan}}
             IN  [r EXCEPT !.ret = these_users \ other_users]

\* SeshetChannel.log_message: the while loop deleting message_log[0]
RECURSIVE Evict(_, _)
Evict(log, size) == IF Len(log) > size THEN Evict(Tail(log), size) ELSE log

\* log_message deleting at the wrong end of the list
LogMessageDropsNewest(ch, user, message, time) ==
    LET log == Append(ch.message_log, <<time, IRCstr(user), message>>)
    IN  [ch EXCEPT !.message_log =
            IF Len(log) > ch.log_size THEN SubSeq(log, 1, ch.log_size) ELSE log]

\* SeshetChannel.log_message(user, message) on the object ch, datetime.utcnow()
\* returning time
LogMessage(ch, user, message, time) ==
    [ch EXCEPT !.message_log =
        Evict(Append(@, <<time, IRCstr(user), message>>), ch.log_size)]

(***************************************************************************)
(* String operations used by run_modules.                                  *)
(***************************************************************************)
\* str.startswith
StartsWith(s, p) == Len(p) <= Len(s) /\ SubSeq(s, 1, Len(p)) = p

\* s[n:]
Drop(s, n) == SubSeq(s, n + 1, Len(s))

\* str.lstrip(chars)
RECURSIVE LStrip(_, _)
LStrip(s, chars) ==
    IF s # <<>> /\ Head(s) \in chars THEN LStrip(Tail(s), chars) ELSE s

StripChars == {",", ":", " "}

\* str.split(): the maximal runs of non-whitespace characters
Whitespace == {" "}
RECURSIVE SplitFrom(_, _, _)
SplitFrom(s, cur, acc) ==
    IF s = <<>>
    THEN IF cur = <<>> THEN acc ELSE Append(acc, cur)
    ELSE IF Head(s) \in Whitespace
         THEN SplitFrom(Tail(s), <<>>, IF cur = <<>> THEN acc ELSE Append(acc, cur))
         ELSE SplitFrom(Tail(s), Append(cur, Head(s)), acc)

Split(s) == SplitFrom(s, <<>>, <<>>)

(***************************************************************************)
(* run_modules.  A module is a row of db.modules together with the         *)
(* commands of the Python module it names: [name, enabled, event_types,    *)
(* cmd_prefix, whitelist, blacklist, enicks, dnicks, echannels, dchannels, *)
(* commands]; commands is the sequence of the command words in the order   *)
(* of m.commands.items().                                                  *)
(***************************************************************************)
MessageKinds == {"PRIVMSG", "CTCP_ACTION", "NOTICE"}

\* what run_modules leaves behind: e.message, init_mods and the fin_mods
\* the loop of lines 268-277 ran over (module names), the handlers called
\* (<<module name, command word>>) and the number of times e.message was
\* assigned to
NoDispatch == [ran |-> FALSE, message |-> <<>>, init_mods |-> <<>>,
               fin_mods |-> <<>>, calls |-> <<>>, strips |-> 0]

\* the names the bot answers to, lower case, in the order they are tried
\* (lines 214-216, 239-251)
BotNames == <<StrLower(Nickname), StrLower(BotUser), StrLower(BotRealName)>>

\* the state of the loop over init_mods: e.message, for_us and fin_mods
\* (strips counts the assignments to e.message)
SelectStart(e) ==
    [message |-> e.message, for_us |-> FALSE, fin_mods |-> <<>>, strips |-> 0]

\* lines 230-234: the white list and the black list
UserListGate(d, e, mod) ==
    IF e.source \in mod.whitelist
    THEN [d EXCEPT !.fin_mods = Append(@, mod.name)]
    ELSE d

\* lines 240-245, 247-250, 252-255: the prefix n of m_low is cut off
\* e.message
StripName(d, mod, n) ==
    [d EXCEPT !.message = LStrip(Drop(d.message, Len(n)), StripChars),
              !.fin_mods = Append(@, mod.name),
              !.for_us = TRUE,
              !.strips = @ + 1]

\* the address gate forgetting that the name was stripped already
AddressGateNoFlag(d, e, mod) ==
    LET m_low == StrLower(e.message)
    IN  IF Nickname \in mod.enicks
        THEN IF e.target = Nickname
             THEN [d EXCEPT !.fin_mods = Append(@, mod.name)]
             ELSE IF StartsWith(m_low, BotNames[1]) THEN StripName(d, mod, BotNames[1])
             ELSE IF StartsWith(m_low, BotNames[2]) THEN StripName(d, mod, BotNames[2])
             ELSE IF StartsWith(m_low, BotNames[3]) THEN StripName(d, mod, BotNames[3])
             ELSE d
        ELSE d

\* lines 236-255: the bot is addressed
AddressGate(d, e, mod) ==
    LET m_low == StrLower(e.message)
    IN  IF Nickname \in mod.enicks
        THEN IF e.target = Nickname \/ d.for_us
             THEN [d EXCEPT !.fin_mods = Append(@, mod.name)]
             ELSE IF StartsWith(m_low, BotNames[1]) THEN StripName(d, mod, BotNames[1])
             ELSE IF StartsWith(m_low, BotNames[2]) THEN StripName(d, mod, BotNames[2])
             ELSE IF StartsWith(m_low, BotNames[3]) THEN StripName(d, mod, BotNames[3])
             ELSE d
        ELSE d

\* the channel gate without the test of the disabled nicks
ChannelGateNoDnicks(d, e, mod, chan_msg, chan_nicks) ==
    IF chan_msg
    THEN IF e.target \in mod.dchannels THEN d
         ELSE IF e.target \in mod.echannels
              THEN [d EXCEPT !.fin_mods = Append(@, mod.name)]
         ELSE IF {IRCstr(n) : n \in mod.enicks} \cap chan_nicks # {}
              THEN [d EXCEPT !.fin_mods = Append(@, mod.name)]
         ELSE d
    ELSE d

\* lines 257-265: the channel and the nicks in it
ChannelGate(d, e, mod, chan_msg, chan_nicks) ==
    IF chan_msg
    THEN IF e.target \in mod.dchannels THEN d
         ELSE IF {IRCstr(n) : n \in mod.dnicks} \cap chan_nicks # {} THEN d
         ELSE IF e.target \in mod.echannels
              THEN [d EXCEPT !.fin_mods = Append(@, mod.name)]
         ELSE IF {IRCstr(n) : n \in mod.enicks} \cap chan_nicks # {}
              THEN [d EXCEPT !.fin_mods = Append(@, mod.name)]
         ELSE d
    ELSE d

\* the loop passing over a module whose blacklist has the source
RECURSIVE SelectLoopBlacklistSkips(_, _, _, _, _, _)
SelectLoopBlacklistSkips(d, e, mods, i, chan_msg, chan_nicks) ==
    IF i > Len(mods)
    THEN d
    ELSE SelectLoopBlacklistSkips(
             IF e.source \in mods[i].blacklist /\ e.source \notin mods[i].whitelist
             THEN d
             ELSE ChannelGate(AddressGate(UserListGate(d, e, mods[i]), e, mods[i]),
                              e, mods[i], chan_msg, chan_nicks),
             e, mods, i + 1, chan_msg, chan_nicks)

\* lines 229-265: the loop over init_mods from position i on
RECURSIVE SelectLoop(_, _, _, _, _, _)
SelectLoop(d, e, mods, i, chan_msg, chan_nicks) ==
    IF i > Len(mods)
    THEN d
    ELSE SelectLoop(
             ChannelGate(AddressGate(UserListGate(d, e, mods[i]), e, mods[i]),
                         e, mods[i], chan_msg, chan_nicks),
             e, mods, i + 1, chan_msg, chan_nicks)

\* lines 274-277: the first command word of the module with
\* cmd_prefix + cmd == argv[0], or 0
Matching(mod, tok) ==
    LET hits == {j \in 1..Len(mod.commands) : mod.cmd_prefix \o mod.commands[j] = tok}
    IN  IF hits = {} THEN 0 ELSE CHOOSE j \in hits : \A k \in hits : j <= k

ModuleNamed(mods, name) == mods[CHOOSE i \in 1..Len(mods) : mods[i].name = name]

\* lines 267-277: the loop over fin_mods from position i on; argv[0] is
\* evaluated for the first command of a module and raises IndexError when
\* the message has no token
RECURSIVE InvokeLoop(_, _, _, _, _)
InvokeLoop(r, fin, mods, argv, i) ==
    IF i > Len(fin)
    THEN r
    ELSE LET mod == ModuleNamed(mods, fin[i])
         IN  IF mod.commands = <<>>
             THEN InvokeLoop(r, fin, mods, argv, i + 1)
             ELSE IF argv = <<>>
                  THEN Raise(r, "IndexError")
                  ELSE LET j == Matching(mod, argv[1])
                       IN  InvokeLoop(
                             IF j = 0 THEN r
                             ELSE [r EXCEPT !.disp.calls =
                                      Append(@, <<mod.name, mod.commands[j]>>)],
                             fin, mods, argv, i + 1)

\* run_modules(e), lines 196-277; without a database it is _run_only_core
\* (line 148), which does nothing
RunModules(r, e) ==
    LET init_mods == SelectSeq(r.modules, LAMBDA m : e.kind \in m.event_types /\ m.enabled)
        names == [i \in 1..Len(init_mods) |-> init_mods[i].name]
        r0 == [r EXCEPT !.trace = Append(@, "run_modules"),
                        !.disp = [NoDispatch EXCEPT !.ran = TRUE, !.init_mods = names]]
    IN  IF ~r.db
        THEN [r EXCEPT !.trace = Append(@, "run_modules")]
        ELSE IF e.kind \notin MessageKinds
        THEN r0
        ELSE
          LET m_low == StrLower(e.message)
              chan_msg == StartsWith(e.target, <<"#">>)
          IN  IF chan_msg /\ IRCstr(e.target) \notin DOMAIN r.channels
              THEN Raise([r0 EXCEPT !.disp.message = e.message], "KeyError")
              ELSE
                LET chan_nicks == IF chan_msg
                                  THEN r.heap[r.channels[IRCstr(e.target)]].users
                                  ELSE {}
                    d == SelectLoop(SelectStart(e), e, init_mods, 1, chan_msg, chan_nicks)
                    r1 == [r0 EXCEPT !.disp = [ran |-> TRUE, message |-> d.message,
                                               init_mods |-> names,
                                               fin_mods |-> d.fin_mods,
                                               calls |-> <<>>, strips |-> d.strips]]
                IN  InvokeLoop(r1, d.fin_mods, init_mods, Split(m_low), 1)

(***************************************************************************)
(* The handlers that call run_modules.                                     *)
(***************************************************************************)
\* on_message, lines 294-303
OnMessage(r, e) ==
    LET r1 == LogCall(r, e)
        chan == IRCstr(e.target)
    IN  IF r1.err # "ok" THEN r1
        ELSE LET r2 == IF chan \in DOMAIN r1.channels
                       THEN [r1 EXCEPT
                               !.heap[r1.channels[chan]] =
                                   LogMessage(@, e.source, e.message, r1.clock),
                               !.clock = @ + 1,
                               !.trace = Append(@, "log_message")]
                       ELSE r1
             IN  RunModules(r2, e)

\* on_join, lines 305-319
OnJoin(r, e) ==
    LET r1 == LogCall(r, e)
    IN  IF r1.err # "ok" THEN r1
        ELSE LET r2 == JoinRoster(r1, e)
             IN  IF r2.err # "ok" THEN r2 ELSE RunModules(r2, e)

\* on_ctcp_action, lines 403-408, and on_mode, lines 413-418
OnCtcpAction(r, e) == LogCall(r, e)

OnMode(r, e) == LogCall(r, e)

(***************************************************************************)
(* Object ids.  Objects no reference reaches are dropped, as CPython's     *)
(* reference counting does, and the object made by this handler gets the   *)
(* smallest free id.                                                       *)
(***************************************************************************)
Live(r) ==
    {r.channels[c] : c \in DOMAIN r.channels}
        \cup UNION {{r.users[i].channels[j] : j \in 1..Len(r.users[i].channels)}
                    : i \in 1..Len(r.users)}

FreeIds(r) == ObjIds \ Live(r)

Rename(r, id) ==
    LET ren(x) == IF x = TmpId THEN id ELSE x
    IN  [r EXCEPT
           !.heap = [x \in {ren(y) : y \in Live(r)} |->
                        IF x = id THEN r.heap[TmpId] ELSE r.heap[x]],
           !.channels = [c \in DOMAIN r.channels |-> ren(r.channels[c])],
           !.users = [i \in 1..Len(r.users) |->
                        [r.users[i] EXCEPT !.channels =
                            [j \in 1..Len(@) |-> ren(@[j])]]]]

Normalize(r) ==
    IF TmpId \in Live(r)
    THEN Rename(r, CHOOSE x \in FreeIds(r) : \A y \in FreeIds(r) : x <= y)
    ELSE [r EXCEPT !.heap = [x \in Live(r) |-> r.heap[x]]]

\* the roster a handler starts from
Roster ==
    [users |-> users, channels |-> channels, heap |-> heap, clock |-> clock,
     modules |-> modules, disp |-> NoDispatch, err |-> "ok", ret |-> {},
     trace |-> <<>>, db |-> db, log_formats |-> log_formats, locale |-> locale,
     log_file |-> log_file, written |-> written]

\* the handler of event e has left r behind
Commit(r, e) ==
    /\ steps < MaxEvents
    /\ \E n \in {Normalize(r)} :
           /\ n.clock <= MaxClock
           /\ users' = n.users
           /\ channels' = n.channels
           /\ heap' = n.heap
           /\ clock' = n.clock
           /\ disp' = n.disp
           /\ err' = n.err
           /\ returned' = n.ret
           /\ trace' = n.trace
           /\ written' = n.written
    /\ last' = e.kind
    /\ steps' = steps + 1
    /\ UNCHANGED <<modules, inserted, db, log_formats, locale, log_file>>

(***************************************************************************)
(* Modules and messages the events are drawn from.                         *)
(***************************************************************************)
Ping == <<"p", "i", "n", "g">>
Pong == <<"p", "o", "n", "g">>

BaseModule ==
    [name |-> "base", enabled |-> TRUE, event_types |-> {"PRIVMSG"},
     cmd_prefix |-> <<>>, whitelist |-> {}, blacklist |-> {}, enicks |-> {},
     dnicks |-> {}, echannels |-> {}, dchannels |-> {}, commands |-> <<Ping>>]

\* answers "ping" when the bot is addressed
ModPing == [BaseModule EXCEPT !.name = "ping", !.enicks = {Nickname}]
\* the same with a command prefix and two commands
ModBang == [BaseModule EXCEPT !.name = "bang", !.enicks = {Nickname},
                              !.cmd_prefix = <<"!">>, !.commands = <<Pong, Ping>>,
                              !.event_types = {"PRIVMSG", "JOIN"}]
\* enabled in #C, silenced by the presence of B
ModQuiet == [BaseModule EXCEPT !.name = "quiet", !.echannels = {ChanC},
                               !.dnicks = {NickB}]
\* the same, with user lists
ModList == [ModQuiet EXCEPT !.name = "list", !.whitelist = {NickA},
                            !.blacklist = {NickB}]
\* the same, answering when the bot is addressed
ModAddr == [ModQuiet EXCEPT !.name = "addr", !.enicks = {Nickname}]
\* disabled in #d, enabled where A is
ModChan == [BaseModule EXCEPT !.name = "chan", !.dchannels = {ChanD},
                              !.enicks = {NickA}, !.blacklist = {NickA}]
\* a disabled row
ModOff == [ModPing EXCEPT !.name = "off", !.enabled = FALSE]

ModuleRules == {ModPing, ModBang, ModQuiet, ModList, ModAddr, ModChan, ModOff}

\* the module tables of SpecDispatch: no row, one row, or two different
\* rows of the modules that answer when the bot is addressed or listed
PairedRules == {ModPing, ModBang, ModAddr, ModList}
ModuleTables ==
    {<<>>} \cup {<<m>> : m \in ModuleRules}
           \cup {<<p[1], p[2]>> : p \in {q \in PairedRules \X PairedRules : q[1] # q[2]}}

MsgBotPing == <<"B", "o", "t", ":", " ", "p", "i", "n", "g">>
MsgUserPing == <<"b", "t", " ", "P", "i", "n", "g">>
MsgRealPing == <<"R", "B", ",", "p", "i", "n", "g">>
MsgTwice == <<"b", "o", "t", ":", "B", "o", "t", " ", "p", "i", "n", "g">>
MsgPing == <<"p", "i", "n", "g">>
MsgBang == <<"!", "p", "i", "n", "g">>
MsgBlank == <<" ">>

Messages ==
    {MsgBotPing, MsgUserPing, MsgRealPing, MsgTwice, MsgPing, MsgBang, MsgBlank}

(***************************************************************************)
(* Events.                                                                 *)
(***************************************************************************)
Event(kind, source, target, victim, names, message, logOk) ==
    [kind |-> kind, source |-> source, target |-> target, victim |-> victim,
     names |-> names, message |-> message, logOk |-> logOk]

NamesEvent(c, ns) == Event("NAMES", <<>>, c, <<>>, ns, <<>>, TRUE)
JoinEvent(n, c, ok) == Event("JOIN", n, c, <<>>, {}, <<>>, ok)
PartEvent(n, c, ok) == Event("PART", n, c, <<>>, {}, <<>>, ok)
\* KICK: n kicks v from c (e.source, e.target, e.params[0])
KickEvent(n, c, v, ok) == Event("KICK", n, c, v, {}, <<>>, ok)
QuitEvent(n, ok) == Event("QUIT", n, <<>>, <<>>, {}, <<>>, ok)
\* NICK: n becomes m (e.source, e.target)
NickEvent(n, m, ok) == Event("NICK", n, m, <<>>, {}, <<>>, ok)
MessageEvent(n, t, m, ok) == Event("PRIVMSG", n, t, <<>>, {}, m, ok)

\* a bot built with a database; the settings of the file log are the
\* constructor's (lines 136-138)
WithDatabase ==
    /\ db = TRUE
    /\ log_formats = {}
    /\ locale = {}
    /\ log_file = DefaultLogFile
    /\ written = <<>>

Init ==
    /\ users = <<>>
    /\ channels = <<>>
    /\ heap = <<>>
    /\ clock = 0
    /\ last = "INIT"
    /\ err = "ok"
    /\ disp = NoDispatch
    /\ steps = 0
    /\ modules = <<ModPing>>
    /\ inserted = <<>>
    /\ returned = {}
    /\ trace = <<>>
    /\ WithDatabase

\* In Spec every call of self.log returns.
LogReturns == {TRUE}
\* the nicks kicked
KickVictims == {NickA, Nickname}

\* RPL_NAMES for a channel of cs with a name list of ls
NamesReplyOf(cs, ls) ==
    \E c \in cs, ns \in ls :
        Commit(AddChannelNames(Roster, NamesEvent(c, ns)), NamesEvent(c, ns))

NamesReply == NamesReplyOf(RawChans, NameLists)

JoinOf(oks) ==
    \E n \in RawNicks, c \in RawChans, ok \in oks :
        Commit(OnJoin(Roster, JoinEvent(n, c, ok)), JoinEvent(n, c, ok))

Join == JoinOf(LogReturns)

PartOf(oks) ==
    \E n \in RawNicks, c \in RawChans, ok \in oks :
        Commit(OnPart(Roster, PartEvent(n, c, ok)), PartEvent(n, c, ok))

Part == PartOf(LogReturns)

KickOf(oks) ==
    \E n \in RawNicks, c \in RawChans, v \in KickVictims, ok \in oks :
        Commit(OnKick(Roster, KickEvent(n, c, v, ok)), KickEvent(n, c, v, ok))

Kick == KickOf(LogReturns)

QuitOf(oks) ==
    \E n \in RawNicks, ok \in oks :
        Commit(OnQuit(Roster, QuitEvent(n, ok)), QuitEvent(n, ok))

Quit == QuitOf(LogReturns)

NickChangeOf(oks) ==
    \E n \in RawNicks, m \in NewNicks, ok \in oks :
        Commit(OnNickChange(Roster, NickEvent(n, m, ok)), NickEvent(n, m, ok))

NickChange == NickChangeOf(LogReturns)

\* PRIVMSG from a source of ss to a target of ts with a message of ms
MessageOf(ss, ts, ms, oks) ==
    \E n \in ss, t \in ts, m \in ms, ok \in oks :
        Commit(OnMessage(Roster, MessageEvent(n, t, m, ok)), MessageEvent(n, t, m, ok))

Message == MessageOf({NickA}, {ChanC, Nickname}, {MsgBotPing}, LogReturns)

Next == NamesReply \/ Join \/ Part \/ Kick \/ Quit \/ NickChange \/ Message

Spec == Init /\ [][Next]_vars

(***************************************************************************)
(* SpecCache: one SeshetChannel built with a log_size of 0..MaxCap, and    *)
(* log_message called on it.  datetime.utcnow() returns the time of the    *)
(* previous call or a later one.                                           *)
(***************************************************************************)
InitCache ==
    /\ users = <<>>
    /\ channels = (IRCstr(ChanC) :> 1)
    /\ \E n \in 0..MaxCap : heap = (1 :> NewChannel(IRCstr(ChanC), {}, n))
    /\ clock = 0
    /\ last = "INIT"
    /\ err = "ok"
    /\ disp = NoDispatch
    /\ steps = 0
    /\ modules = <<>>
    /\ inserted = <<>>
    /\ returned = {}
    /\ trace = <<>>
    /\ WithDatabase

CacheLog ==
    \E u \in {NickA, NickB}, t \in {clock, clock + 1} :
        /\ Len(inserted) < MaxInserts
        /\ heap' = [heap EXCEPT ![1] = LogMessage(@, u, MsgPing, t)]
        /\ inserted' = Append(inserted, <<t, IRCstr(u), MsgPing>>)
        /\ clock' = t
        /\ last' = "LOG"
        /\ UNCHANGED <<users, channels, err, disp, steps, modules, returned, trace,
                     db, log_formats, locale, log_file, written>>

NextCache == CacheLog

SpecCache == InitCache /\ [][NextCache]_vars

(***************************************************************************)
(* SpecDispatch: any module table of ModuleTables, names replies for #C    *)
(* and channel or private messages from A and B.                           *)
(***************************************************************************)
InitDispatch ==
    /\ users = <<>>
    /\ channels = <<>>
    /\ heap = <<>>
    /\ clock = 0
    /\ last = "INIT"
    /\ err = "ok"
    /\ disp = NoDispatch
    /\ steps = 0
    /\ modules \in ModuleTables
    /\ inserted = <<>>
    /\ returned = {}
    /\ trace = <<>>
    /\ WithDatabase

DispatchNames ==
    /\ steps < MaxDispatchEvents
    /\ NamesReplyOf({ChanC}, {{NickA}, {NickA, NickB, Nickname}})

DispatchMessage ==
    /\ steps < MaxDispatchEvents
    /\ MessageOf({NickA, NickB}, {ChanC, ChanD, Nickname}, Messages, LogReturns)

NextDispatch == DispatchNames \/ DispatchMessage

SpecDispatch == InitDispatch /\ [][NextDispatch]_vars

(***************************************************************************)
(* Properties.                                                             *)
(***************************************************************************)
\* the SeshetChannel object self.channels holds under the name c
ChannelOf(c) == heap[channels[c]]

\* the steps of Next that handle one given event
PartStep(n, c) == Commit(OnPart(Roster, PartEvent(n, c, TRUE)), PartEvent(n, c, TRUE))
KickStep(n, c, v) ==
    Commit(OnKick(Roster, KickEvent(n, c, v, TRUE)), KickEvent(n, c, v, TRUE))
JoinStep(n, c) == Commit(OnJoin(Roster, JoinEvent(n, c, TRUE)), JoinEvent(n, c, TRUE))
QuitStep(n) == Commit(OnQuit(Roster, QuitEvent(n, TRUE)), QuitEvent(n, TRUE))
NickStep(n, m) == Commit(OnNickChange(Roster, NickEvent(n, m, TRUE)), NickEvent(n, m, TRUE))

\* C1: after every event, for every user u of the users map and every
\* channel c of the channels map, c is in u.channels exactly when u.nick is
\* in c.users.
C1_Bidirectional ==
    \A i \in 1..Len(users) : \A c \in DOMAIN channels :
        InList(users[i].channels, channels[c]) <=> users[i].nick \in ChannelOf(c).users

\* C2: a PART of the bot's own nick from a known channel C, or a KICK of
\* the bot's own nick from it, completes; afterwards the users whose only
\* channel was C are gone from the users map and the users that were in C
\* and in another channel are still there, with C removed from their list.
SelfPartPruned(c) ==
    /\ err' = "ok"
    /\ \A i \in 1..Len(users) :
         LET u == users[i]
         IN  InList(u.channels, channels[c]) =>
               IF ListRemove(u.channels, channels[c]) = <<>>
               THEN u.key \notin Keys(users')
               ELSE /\ u.key \in Keys(users')
                    /\ Get(users', u.key).channels = ListRemove(u.channels, channels[c])

C2_SelfPartPrunes ==
    [][\A n \in RawNicks, c \in RawChans, v \in KickVictims :
          /\ (IRCstr(c) \in DOMAIN channels /\ IRCstr(n) = IRCstr(Nickname)
                /\ PartStep(n, c))
               => SelfPartPruned(IRCstr(c))
          /\ (IRCstr(c) \in DOMAIN channels /\ IRCstr(v) = IRCstr(Nickname)
                /\ KickStep(n, c, v))
               => SelfPartPruned(IRCstr(c))]_vars

\* the last n elements of a sequence (all of it when it is shorter)
LastN(q, n) == SubSeq(q, IF Len(q) > n THEN Len(q) - n + 1 ELSE 1, Len(q))

\* C3: a channel with cap N never holds more than N entries, and after any
\* calls of log_message its message_log is the N most recent entries, in
\* the order they were inserted: of N+k insertions the k oldest are gone.
C3_CacheKeepsNewest ==
    \A c \in DOMAIN channels :
        /\ Len(ChannelOf(c).message_log) <= ChannelOf(c).log_size
        /\ ChannelOf(c).message_log = LastN(inserted, ChannelOf(c).log_size)

\* two entries were evicted from a full cache of more than one entry
C3_Witness ==
    \E c \in DOMAIN channels :
        /\ ChannelOf(c).log_size >= 2
        /\ Len(inserted) >= ChannelOf(c).log_size + 2
        /\ Len(ChannelOf(c).message_log) = ChannelOf(c).log_size
        /\ last = "LOG"

(***************************************************************************)
(* Properties of the dispatch (SpecDispatch).                              *)
(***************************************************************************)
DispatchSources == {NickA, NickB}
DispatchTargets == {ChanC, ChanD, Nickname}

\* what on_message leaves behind for a message m from n to t
Dispatched(n, t, m) == OnMessage(Roster, MessageEvent(n, t, m, TRUE))

\* the rows run_modules starts from for a PRIVMSG
Candidates == SelectSeq(modules, LAMBDA mod : "PRIVMSG" \in mod.event_types /\ mod.enabled)

\* t is a channel the bot has a names reply for
KnownChannel(t) == Head(t) = "#" /\ IRCstr(t) \in DOMAIN channels

\* m begins with the bot's nickname, username or real name, in any case
Addressed(m) == \E k \in 1..3 : StartsWith(StrLower(m), BotNames[k])

\* m without the first of the three names it begins with and without the
\* separators that follow it
Unaddressed(m) ==
    LET k == CHOOSE j \in 1..3 :
                 /\ StartsWith(StrLower(m), BotNames[j])
                 /\ \A h \in 1..(j - 1) : ~StartsWith(StrLower(m), BotNames[h])
        rest == SubSeq(m, Len(BotNames[k]) + 1, Len(m))
        sep == {i \in 1..Len(rest) : \A h \in 1..i : rest[h] \in StripChars}
    IN  SubSeq(rest, Cardinality(sep) + 1, Len(rest))

\* number of times x occurs in the sequence q
Count(q, x) == Cardinality({i \in 1..Len(q) : q[i] = x})

\* C4: in a pass over candidate modules that all have the bot's nickname in
\* enicks, for a message to a known channel that begins with one of the
\* bot's names, e.message is assigned once, to the message without the name
\* and the separators after it; the first module is selected by that
\* stripping and every later module is selected too.
C4_StrippedOnce ==
    \A n \in DispatchSources, t \in DispatchTargets, m \in Messages :
        (/\ KnownChannel(t)
         /\ Addressed(m)
         /\ Candidates # <<>>
         /\ \A i \in 1..Len(Candidates) : Nickname \in Candidates[i].enicks)
        => \A r \in {Dispatched(n, t, m)} :
               /\ r.disp.ran
               /\ r.disp.strips = 1
               /\ r.disp.message = Unaddressed(m)
               /\ \A i \in 1..Len(Candidates) :
                      InList(r.disp.fin_mods, Candidates[i].name)

\* a pass over two modules with the bot's nickname in enicks has stripped
\* the name from "bot:Bot ping" once, and both modules are selected
C4_Witness ==
    /\ last = "PRIVMSG"
    /\ err = "ok"
    /\ Len(Candidates) = 2
    /\ \A i \in 1..2 : Nickname \in Candidates[i].enicks
    /\ disp.ran
    /\ disp.strips = 1
    /\ disp.message = <<"B", "o", "t", " ", "p", "i", "n", "g">>
    /\ \A i \in 1..2 : InList(disp.fin_mods, Candidates[i].name)

\* a candidate module silenced in t by a disabled nick that is in t
Silenced(mod, t) == {IRCstr(x) : x \in mod.dnicks} \cap ChannelOf(IRCstr(t)).users # {}

\* C5 as claimed: for a message to a known channel, a candidate module
\* with a disabled nick in the channel is not in the final run list.
C5_DisabledNickExcludes ==
    \A n \in DispatchSources, t \in DispatchTargets, m \in Messages :
        KnownChannel(t) =>
            \A r \in {Dispatched(n, t, m)} : \A i \in 1..Len(Candidates) :
                Silenced(Candidates[i], t)
                    => ~InList(r.disp.fin_mods, Candidates[i].name)

\* C5 amended: for a message to a known channel, a candidate module with a
\* disabled nick in the channel gets nothing from the channel gate, even if
\* the channel is in its echannels: it is in the final run list once for a
\* source in its whitelist and once more when the bot's nickname is in its
\* enicks and the message begins with one of the bot's names, and not
\* otherwise.
C5_DisabledNickClosesChannelGate ==
    \A n \in DispatchSources, t \in DispatchTargets, m \in Messages :
        KnownChannel(t) =>
            \A r \in {Dispatched(n, t, m)} : \A i \in 1..Len(Candidates) :
                Silenced(Candidates[i], t)
                    => Count(r.disp.fin_mods, Candidates[i].name)
                         = (IF n \in Candidates[i].whitelist THEN 1 ELSE 0)
                           + (IF Nickname \in Candidates[i].enicks /\ Addressed(m)
                              THEN 1 ELSE 0)

\* a module enabled in #C and silenced by B was a candidate for a message
\* to #C with B in it, and was not selected
C5_Witness ==
    /\ last = "PRIVMSG"
    /\ err = "ok"
    /\ disp.ran
    /\ modules = <<ModQuiet>>
    /\ IRCstr(ChanC) \in DOMAIN channels
    /\ IRCstr(NickB) \in ChannelOf(IRCstr(ChanC)).users
    /\ ChannelOf(IRCstr(ChanC)).message_log # <<>>
    /\ disp.fin_mods = <<>>

\* C6: after a names reply for #C with [A, B, Bot], with the one module
\* "ping" (enicks = {Bot}, cmd_prefix = "", command "ping"), the message
\* "Bot: ping" from A to #C has the ping handler called exactly once.
C6_PingCalledOnce ==
    (/\ modules = <<ModPing>>
     /\ IRCstr(ChanC) \in DOMAIN channels
     /\ ChannelOf(IRCstr(ChanC)).users = {IRCstr(NickA), IRCstr(NickB), IRCstr(Nickname)})
    => Dispatched(NickA, ChanC, MsgBotPing).disp.calls = <<<<"ping", Ping>>>>

(***************************************************************************)
(* Properties of the roster handlers (Spec).                               *)
(***************************************************************************)
\* the channel list of the user under key k, empty when there is none
ChannelsOfUser(us, k) == IF k \in Keys(us) THEN Get(us, k).channels ELSE <<>>

\* C7: a NICK event for a known user completes; afterwards the user is in
\* the users map under the new nick with the channel list it had, not under
\* the old nick unless the two are the same identity, the map has as many
\* users as before, and every channel user set that held the old nick holds
\* the new one instead.
C7_NickRekeys ==
    [][\A n \in RawNicks, m \in NewNicks :
          (IRCstr(n) \in Keys(users) /\ NickStep(n, m))
            => /\ err' = "ok"
               /\ IRCstr(m) \in Keys(users')
               /\ ChannelsOfUser(users', IRCstr(m)) = ChannelsOfUser(users, IRCstr(n))
               /\ IRCstr(m) # IRCstr(n) => IRCstr(n) \notin Keys(users')
               /\ Len(users') = Len(users)
               /\ \A c \in DOMAIN channels :
                    IRCstr(n) \in ChannelOf(c).users
                      => /\ IRCstr(m) \in heap'[channels'[c]].users
                         /\ IRCstr(m) # IRCstr(n)
                              => IRCstr(n) \notin heap'[channels'[c]].users]_vars

C9_QuitForgets ==
    [][\A n \in RawNicks :
          (/\ \/ IRCstr(n) \in Keys(users)
              \/ \E c \in DOMAIN channels : IRCstr(n) \in ChannelOf(c).users
           /\ QuitStep(n))
            => /\ IRCstr(n) \notin Keys(users')
               /\ \A c \in DOMAIN channels' :
                      IRCstr(n) \notin heap'[channels'[c]].users]_vars

\* C10: when a PART, or a KICK, of a user other than the bot completes and
\* takes the last channel off that user's list, the user is gone from the
\* users map: it does not stay there with an empty list.
Departed(nick) ==
    /\ err' = "ok"
    /\ nick # IRCstr(Nickname)
    /\ ChannelsOfUser(users, nick) # <<>>

C10_EmptyUserDestroyed ==
    [][\A n \in RawNicks, c \in RawChans, v \in KickVictims :
          /\ (PartStep(n, c) /\ Departed(IRCstr(n)))
               => (IRCstr(n) \in Keys(users')
                     => ChannelsOfUser(users', IRCstr(n)) # <<>>)
          /\ (KickStep(n, c, v) /\ Departed(IRCstr(v)))
               => (IRCstr(v) \in Keys(users')
                     => ChannelsOfUser(users', IRCstr(v)) # <<>>)]_vars

NamesStep(c, ns) == Commit(AddChannelNames(Roster, NamesEvent(c, ns)), NamesEvent(c, ns))

\* C11: a names reply for a channel that is in the channels map already
\* leaves the channel entry in place: the channel keeps its message_log,
\* and every user whose channel list held the channel's object still holds
\* the object the channels map has under that name.
C11_NamesReplyKeepsChannel ==
    [][\A c \in RawChans, ns \in NameLists :
          (IRCstr(c) \in DOMAIN channels /\ NamesStep(c, ns))
            => /\ heap'[channels'[IRCstr(c)]].message_log
                    = ChannelOf(IRCstr(c)).message_log
               /\ \A i \in 1..Len(users) :
                      InList(users[i].channels, channels[IRCstr(c)])
                        => /\ i <= Len(users')
                           /\ InList(users'[i].channels, channels'[IRCstr(c)])]_vars

(***************************************************************************)
(* SpecUnique: the events that change the channels' user sets, and calls   *)
(* of get_unique_users for any channel name.                               *)
(***************************************************************************)
UniqueEvent(c) == Event("UNIQUE", <<>>, c, <<>>, {}, <<>>, TRUE)

UniqueUsers ==
    \E c \in RawChans : Commit(GetUniqueUsers(Roster, c), UniqueEvent(c))

NextUnique == NamesReply \/ Join \/ Part \/ Quit \/ UniqueUsers

SpecUnique == Init /\ [][NextUnique]_vars

\* the identities in the user set of the known channel c and of no other
\* known channel
OnlyIn(c) ==
    {n \in ChannelOf(c).users :
        \A d \in DOMAIN channels \ {c} : n \notin ChannelOf(d).users}

\* C12: for every known channel c, get_unique_users(c) returns exactly the
\* identities that are in c's user set and in the user set of no other
\* known channel, and it leaves the roster as it was.
C12_UniqueUsers ==
    /\ \A c \in RawChans :
         IRCstr(c) \in DOMAIN channels =>
           \A r \in {GetUniqueUsers(Roster, c)} :
               /\ r.err = "ok"
               /\ r.ret = OnlyIn(IRCstr(c))
               /\ [r EXCEPT !.ret = {}] = Roster
    /\ (last = "UNIQUE" /\ err = "ok")
         => \E c \in DOMAIN channels : returned = OnlyIn(c)

\* get_unique_users has returned some but not all of the users of a channel
C12_Witness ==
    /\ last = "UNIQUE"
    /\ err = "ok"
    /\ \E c \in DOMAIN channels :
           /\ returned = OnlyIn(c)
           /\ returned # {}
           /\ returned # ChannelOf(c).users

\* C13: a JOIN of another nick than the bot's for a channel that is not in
\* the channels map, a PART or KICK whose channel is not in the channels
\* map or whose departing nick is not in the users map, and a QUIT or NICK
\* of a nick that is not in the users map, all end in the not-found error
\* (KeyError).
C13_NotFound ==
    [][/\ \A n \in RawNicks, c \in RawChans :
            (n # Nickname /\ IRCstr(c) \notin DOMAIN channels /\ JoinStep(n, c))
              => err' = "KeyError"
       /\ \A n \in RawNicks, c \in RawChans :
            ((IRCstr(c) \notin DOMAIN channels \/ IRCstr(n) \notin Keys(users))
               /\ PartStep(n, c))
              => err' = "KeyError"
       /\ \A n \in RawNicks, c \in RawChans, v \in KickVictims :
            ((IRCstr(c) \notin DOMAIN channels \/ IRCstr(n) \notin Keys(users))
               /\ KickStep(n, c, v))
              => err' = "KeyError"
       /\ \A n \in RawNicks :
            (IRCstr(n) \notin Keys(users) /\ QuitStep(n)) => err' = "KeyError"
       /\ \A n \in RawNicks, m \in NewNicks :
            (IRCstr(n) \notin Keys(users) /\ NickStep(n, m))
              => err' = "KeyError"]_vars

(***************************************************************************)
(* SpecEvents: the handlers of the events that are logged, with a          *)
(* self.log that returns or raises the storage layer's exception, and      *)
(* module tables with a module for JOIN events.                            *)
(***************************************************************************)
ActionEvent(n, t, m, ok) == Event("CTCP_ACTION", n, t, <<>>, {}, m, ok)
ModeEvent(n, t, ok) == Event("MODE", n, t, <<>>, {}, <<>>, ok)

EventTables == {<<ModPing>>, <<ModBang, ModOff>>, <<ModOff, ModBang, ModPing>>}
EventSources == {NickA, Nickname}
EventTargets == {ChanC, Nickname}
EventMessages == {MsgBotPing, MsgBang}

InitEvents ==
    /\ users = <<>>
    /\ channels = <<>>
    /\ heap = <<>>
    /\ clock = 0
    /\ last = "INIT"
    /\ err = "ok"
    /\ disp = NoDispatch
    /\ steps = 0
    /\ modules \in EventTables
    /\ inserted = <<>>
    /\ returned = {}
    /\ trace = <<>>
    /\ WithDatabase

EventsNames == NamesReplyOf({ChanC}, NameLists)

EventsJoin ==
    \E n \in EventSources, c \in RawChans, ok \in BOOLEAN :
        Commit(OnJoin(Roster, JoinEvent(n, c, ok)), JoinEvent(n, c, ok))

EventsMessage == MessageOf(EventSources, EventTargets, EventMessages, BOOLEAN)

EventsCtcpAction ==
    \E n \in EventSources, t \in EventTargets, m \in EventMessages, ok \in BOOLEAN :
        Commit(OnCtcpAction(Roster, ActionEvent(n, t, m, ok)), ActionEvent(n, t, m, ok))

EventsMode ==
    \E n \in EventSources, t \in EventTargets, ok \in BOOLEAN :
        Commit(OnMode(Roster, ModeEvent(n, t, ok)), ModeEvent(n, t, ok))

NextEvents == EventsNames \/ EventsJoin \/ EventsMessage \/ EventsCtcpAction \/ EventsMode

SpecEvents == InitEvents /\ [][NextEvents]_vars

\* the step handling a JOIN, or a PRIVMSG, whose self.log call does not return
JoinLogFails(n, c) ==
    Commit(OnJoin(Roster, JoinEvent(n, c, FALSE)), JoinEvent(n, c, FALSE))
MessageLogFails(n, t, m) ==
    Commit(OnMessage(Roster, MessageEvent(n, t, m, FALSE)), MessageEvent(n, t, m, FALSE))

\* C14: when the self.log call of a handler fails, the handler still does
\* what it does when the call returns: a JOIN leaves the users and the
\* channels it leaves otherwise, and a PRIVMSG leaves the message cache and
\* the dispatch it leaves otherwise.
C14_LogFailureTolerated ==
    [][/\ \A n \in EventSources, c \in RawChans :
            JoinLogFails(n, c) =>
              \A g \in {Normalize(OnJoin(Roster, JoinEvent(n, c, TRUE)))} :
                  g.err = "ok" => /\ users' = g.users
                                  /\ heap' = g.heap
       /\ \A n \in EventSources, t \in EventTargets, m \in EventMessages :
            MessageLogFails(n, t, m) =>
              \A g \in {Normalize(OnMessage(Roster, MessageEvent(n, t, m, TRUE)))} :
                  g.err = "ok" => /\ heap' = g.heap
                                  /\ disp' = g.disp]_vars

\* the steps handling a PRIVMSG and a CTCP ACTION whose self.log call returns
MessageStep(n, t, m) ==
    Commit(OnMessage(Roster, MessageEvent(n, t, m, TRUE)), MessageEvent(n, t, m, TRUE))
CtcpActionStep(n, t, m) ==
    Commit(OnCtcpAction(Roster, ActionEvent(n, t, m, TRUE)), ActionEvent(n, t, m, TRUE))

\* the calls a handler of a message-shaped event with target t is to make
MessageCalls(t) ==
    IF IRCstr(t) \in DOMAIN channels
    THEN <<"log", "log_message", "run_modules">>
    ELSE <<"log", "run_modules">>

\* C15: the handler of a PRIVMSG and the handler of a CTCP ACTION call
\* self.log first, then log_message of the target channel if the target is
\* a known channel, then run_modules; none of them ends without the
\* run_modules call.
C15_LogCacheDispatch ==
    [][\A n \in EventSources, t \in EventTargets, m \in EventMessages :
          /\ MessageStep(n, t, m) => trace' = MessageCalls(t)
          /\ CtcpActionStep(n, t, m) => trace' = MessageCalls(t)]_vars

(***************************************************************************)
(* SpecFile: a bot built without a database, so that self.log is           *)
(* _log_to_file and run_modules is _run_only_core, with any of the         *)
(* settings of FileFormats, FileLocales and FileNames.                     *)
(***************************************************************************)
FileFormats == {{}, {"privmsg"}, {"privmsg", "action", "join"}}
FileLocales == {{}, LocaleKeys}
FileNames == {DefaultLogFile, TargetLogFile}
FileSources == {NickA, NickB}
FileTargets == {ChanC, Nickname, <<"b", "o", "t">>}

InitFile ==
    /\ users = <<>>
    /\ channels = <<>>
    /\ heap = <<>>
    /\ clock = 0
    /\ last = "INIT"
    /\ err = "ok"
    /\ disp = NoDispatch
    /\ steps = 0
    /\ modules = <<>>
    /\ inserted = <<>>
    /\ returned = {}
    /\ trace = <<>>
    /\ db = FALSE
    /\ log_formats \in FileFormats
    /\ locale \in FileLocales
    /\ log_file \in FileNames
    /\ written = <<>>

FileNamesReply == NamesReplyOf({ChanC}, {{NickA}})

FileMessage == MessageOf(FileSources, FileTargets, {MsgPing}, {TRUE})

FileCtcpAction ==
    \E n \in FileSources, t \in FileTargets :
        Commit(OnCtcpAction(Roster, ActionEvent(n, t, MsgPing, TRUE)),
               ActionEvent(n, t, MsgPing, TRUE))

FileJoin ==
    \E n \in FileSources :
        Commit(OnJoin(Roster, JoinEvent(n, ChanC, TRUE)), JoinEvent(n, ChanC, TRUE))

FileMode ==
    \E n \in FileSources, t \in FileTargets :
        Commit(OnMode(Roster, ModeEvent(n, t, TRUE)), ModeEvent(n, t, TRUE))

NextFile ==
    /\ steps < MaxFileEvents
    /\ FileNamesReply \/ FileMessage \/ FileCtcpAction \/ FileJoin \/ FileMode

SpecFile == InitFile /\ [][NextFile]_vars

\* the handler that left r has written the line of an event of type etype
\* from n to t with text m, with tgt as its target, if the type has a
\* template and the line could be written, and nothing otherwise
FileRecords(r, etype, n, tgt, m) ==
    IF etype \in log_formats /\ LocaleKeys \subseteq locale /\ HasDir(log_file)
    THEN r.written = Append(written, [path |-> FilePath(log_file, tgt),
                                      etype |-> etype, source |-> n,
                                      target |-> tgt, msg |-> m])
    ELSE r.written = written

\* C16: without a database, the line written for a PRIVMSG or a CTCP ACTION
\* whose target equals the bot's nickname has the sender as its target, and
\* the line of any other target has that target; an event whose type has no
\* template in log_formats writes nothing.
C16_FileLogTarget ==
    /\ \A n \in FileSources, t \in FileTargets :
         /\ \A r \in {OnMessage(Roster, MessageEvent(n, t, MsgPing, TRUE))} :
              FileRecords(r, "privmsg", n, IF t = Nickname THEN n ELSE t, MsgPing)
         /\ \A r \in {OnCtcpAction(Roster, ActionEvent(n, t, MsgPing, TRUE))} :
              FileRecords(r, "action", n, IF t = Nickname THEN n ELSE t, MsgPing)
         /\ \A r \in {OnMode(Roster, ModeEvent(n, t, TRUE))} :
              FileRecords(r, "mode", n, t, <<>>)
    /\ \A n \in FileSources :
         \A r \in {OnJoin(Roster, JoinEvent(n, ChanC, TRUE))} :
              FileRecords(r, "join", n, ChanC, <<>>)
    /\ \A i \in 1..Len(written) : written[i].etype \in log_formats

\* a private message has been written with its sender as the target
C16_Witness ==
    /\ last = "PRIVMSG"
    /\ written # <<>>
    /\ written[Len(written)].etype = "privmsg"
    /\ written[Len(written)].target = written[Len(written)].source
    /\ written[Len(written)].path = <<"logs/", written[Len(written)].source, ".log">>

\* C17: the channels map never loses a key: a channel name that is a key
\* before an event is a key after it, whatever the event, the bot's own
\* PART or KICK included.
C17_ChannelsNeverShrink == [][DOMAIN channels \subseteq DOMAIN channels']_vars

\* the bot has parted a channel, its pruning loop has run, and the channels
\* map still has a key
C17_Witness ==
    /\ last = "PART"
    /\ err = "RuntimeError"
    /\ DOMAIN channels # {}

\* the user under key k is linked with the known channel c in both
\* directions, in the roster us, chs, hp
Member(us, chs, hp, k, c) ==
    /\ k \in Keys(us)
    /\ InList(Get(us, k).channels, chs[c])
    /\ k \in hp[chs[c]].users

\* C18: when K kicks V from channel C, both being members of C, V is not a
\* member of C afterwards and K still is.  (That the bot's pruning runs
\* when V, not K, is the bot follows the same lookup of the kicked nick.)
C18_KickRemovesKicked ==
    [][\A n \in RawNicks, c \in RawChans, v \in KickVictims :
          (/\ IRCstr(c) \in DOMAIN channels
           /\ IRCstr(n) # IRCstr(v)
           /\ Member(users, channels, heap, IRCstr(n), IRCstr(c))
           /\ Member(users, channels, heap, IRCstr(v), IRCstr(c))
           /\ KickStep(n, c, v))
            => /\ IRCstr(v) \notin heap'[channels'[IRCstr(c)]].users
               /\ \A i \in 1..Len(users') :
                      users'[i].key = IRCstr(v)
                        => ~InList(users'[i].channels, channels'[IRCstr(c)])
               /\ Member(users', channels', heap', IRCstr(n), IRCstr(c))]_vars

\* 1 when the address gate adds the candidate mod for a message m to t
ByAddress(mod, t, m) ==
    IF Nickname \in mod.enicks /\ (t = Nickname \/ Addressed(m)) THEN 1 ELSE 0

\* 1 when the channel gate adds the candidate mod for a message to t
ByChannel(mod, t) ==
    IF /\ KnownChannel(t)
       /\ t \notin mod.dchannels
       /\ ~Silenced(mod, t)
       /\ \/ t \in mod.echannels
          \/ {IRCstr(x) : x \in mod.enicks} \cap ChannelOf(IRCstr(t)).users # {}
    THEN 1 ELSE 0

\* C19: for a message to the bot or to a known channel and every candidate
\* module: a source in the module's blacklist and not in its whitelist
\* adds nothing by the user-list gate and takes nothing away, the module
\* being in the final run list once for the address gate and once for the
\* channel gate when these include it; a source in the whitelist has the
\* module in the final run list, once more than the other gates put it.
C19_BlacklistDoesNotExclude ==
    \A n \in DispatchSources, t \in DispatchTargets, m \in Messages :
        (t = Nickname \/ KnownChannel(t)) =>
            \A r \in {Dispatched(n, t, m)} : \A i \in 1..Len(Candidates) :
                LET mod == Candidates[i]
                    others == ByAddress(mod, t, m) + ByChannel(mod, t)
                IN  /\ (n \in mod.blacklist /\ n \notin mod.whitelist)
                         => Count(r.disp.fin_mods, mod.name) = others
                    /\ n \in mod.whitelist
                         => /\ InList(r.disp.fin_mods, mod.name)
                            /\ Count(r.disp.fin_mods, mod.name) = 1 + others

\* the module "chan", with A in its blacklist, was selected by the channel
\* gate for a message of A to #C
C19_Witness ==
    /\ last = "PRIVMSG"
    /\ err = "ok"
    /\ modules = <<ModChan>>
    /\ IRCstr(ChanC) \in DOMAIN channels
    /\ ChannelOf(IRCstr(ChanC)).message_log # <<>>
    /\ ChannelOf(IRCstr(ChanC)).message_log[1][2] = IRCstr(NickA)
    /\ disp.fin_mods = <<"chan">>

\* the names of the enabled rows of db.modules whose event_types has kind
Handling(kind) ==
    LET rows == SelectSeq(modules, LAMBDA mod : kind \in mod.event_types /\ mod.enabled)
    IN  [i \in 1..Len(rows) |-> rows[i].name]

\* C20: when a JOIN has been handled, the modules run_modules selected are
\* the enabled modules whose event_types has JOIN, and these are the
\* modules its invocation loop ran over.
C20_JoinModulesRun ==
    [][\A n \in EventSources, c \in RawChans :
          (JoinStep(n, c) /\ err' = "ok")
            => /\ disp'.ran
               /\ disp'.init_mods = Handling("JOIN")
               /\ disp'.fin_mods = Handling("JOIN")]_vars

\* C21: a JOIN that fails because its target channel is not in the channels
\* map leaves the roster as it was: the users map, with every user's
\* channel list, the channels map and every channel's user set are
\* unchanged, so the JOIN adds no user with an empty channel list.
C21_FailedJoinLeavesRoster ==
    [][\A n \in RawNicks, c \in RawChans :
          (/\ IRCstr(c) \notin DOMAIN channels
           /\ JoinStep(n, c)
           /\ err' = "KeyError")
            => /\ users' = users
               /\ channels' = channels
               /\ heap' = heap]_vars

====
